---- MODULE Spec2Model ----
(***************************************************************************)
(* A model of upload.py, the MessageDict release script: the orchestrator  *)
(* main() and the functions it calls.  Strings are TLA+ strings, taken     *)
(* apart with Len, SubSeq and \o, so that validate_url, urlparse and the   *)
(* two re.sub calls of the document patcher are computed on characters.    *)
(* Every external outcome (a command's exit code, an HTTP status, a        *)
(* transport error, what the user types) is chosen with \E.                *)
(***************************************************************************)
EXTENDS Integers, Sequences, FiniteSets, TLC

VARIABLES
    pc,                 \* position in main() / in the function it is executing
    status,             \* "running", "exit0", "sys_exit1" (sys.exit(1)), "exception" (uncaught, exit status 1)
    token,              \* GITHUB_TOKEN, "" when absent
    printed,            \* the diagnostics printed so far (a set of message keys)
    cmds,               \* the external operations performed so far, in order
    failed_cmd,         \* the checked command whose non-zero exit run_command saw, "" if none
    attempts,           \* iterations of the link prompt loop so far
    shortcut_url,       \* main: shortcut_url
    is_valid,           \* main: is_valid, the first component of validate_url's result
    error_msg,          \* main: error_msg, the second component ("None" for None)
    prompted,           \* whether the last validate_url call asked "Continue anyway?"
    readme,             \* the lines of README.md
    qr_file,            \* the temporary QR file: "absent", "exists", "removed"
    cleanup_attempted,  \* whether main reached its clean-up block
    qr_download_url,    \* main: qr_download_url, "None" for None
    default_branch,     \* upload_qr_to_github: default_branch
    get_status,         \* upload_qr_to_github: the status of the hash lookup, 0 before it
    sha,                \* upload_qr_to_github: sha, "None" for None
    data,               \* upload_qr_to_github: the PUT body, <<>> before it is built
    obj_exists,         \* the content store: whether assets/<name> exists already
    obj_sha,            \* the content store: the hash of that object
    remote_new,         \* per pushed branch: commits on origin's branch that the local branch lacks
    published_branch,   \* the branch the contents API committed the QR code to, "" if none
    push_attempts,      \* the pushes attempted by commit_and_push: [branch, behind]
    current_branch,     \* pull_latest: current_branch
    release_status      \* the HTTP status of the release-creation request, 0 before it

vars == <<pc, status, token, printed, cmds, failed_cmd, attempts, shortcut_url,
          is_valid, error_msg, prompted, readme, qr_file, cleanup_attempted,
          qr_download_url, default_branch, get_status, sha, data, obj_exists,
          obj_sha, remote_new, published_branch, push_attempts, current_branch,
          release_status>>

-----------------------------------------------------------------------------
(* Bounds of the model. *)

\* iterations of the "Enter the new shortcut URL" loop that are explored
MaxAttempts == 2
\* commits by which origin may be ahead of the local branch at start
MaxBehind == 1
\* pieces concatenated to build the candidate links given to validate_url
MaxPieces == 3

-----------------------------------------------------------------------------
(* Strings. *)

StartsWith(s, p) ==
    /\ Len(s) >= Len(p)
    /\ SubSeq(s, 1, Len(p)) = p

StartsWithAt(s, i, p) ==
    /\ Len(s) >= i + Len(p) - 1
    /\ SubSeq(s, i, i + Len(p) - 1) = p

Contains(s, p) ==
    \E i \in 1..(Len(s) - Len(p) + 1) : SubSeq(s, i, i + Len(p) - 1) = p

CharAt(s, i) == SubSeq(s, i, i)

\* the first position >= i of s holding a character of the set cs, Len(s)+1 if none
FindFirst(s, i, cs) ==
    LET hits == {k \in i..Len(s) : CharAt(s, k) \in cs}
    IN  IF hits = {} THEN Len(s) + 1
        ELSE CHOOSE k \in hits : \A m \in hits : k <= m

UpperCase == "ABCDEFGHIJKLMNOPQRSTUVWXYZ"
LowerCase == "abcdefghijklmnopqrstuvwxyz"
Digits == "0123456789"

LowerChar(c) ==
    IF \E i \in 1..26 : CharAt(UpperCase, i) = c
    THEN CharAt(LowerCase, CHOOSE i \in 1..26 : CharAt(UpperCase, i) = c)
    ELSE c

\* str.lower()
RECURSIVE Lower(_)
Lower(s) ==
    IF s = "" THEN "" ELSE LowerChar(CharAt(s, 1)) \o Lower(SubSeq(s, 2, Len(s)))

IsAlpha(c) ==
    \E i \in 1..26 : CharAt(UpperCase, i) = c \/ CharAt(LowerCase, i) = c

\* urllib.parse.scheme_chars: letters, digits and "+-."
IsSchemeChar(c) ==
    \/ IsAlpha(c)
    \/ \E i \in 1..10 : CharAt(Digits, i) = c
    \/ c \in {"+", "-", "."}

\* the characters the regular expression class \s matches
Whitespace == {" ", "\t", "\n", "\r", "\f"}

-----------------------------------------------------------------------------
(* urlparse, as validate_url uses it: the scheme, the netloc, and whether  *)
(* urlsplit raised ValueError (an unbalanced bracket in the netloc).       *)

urlparse(url) ==
    LET i == FindFirst(url, 1, {":"})
        hasScheme ==
            /\ i > 1
            /\ i <= Len(url)
            /\ IsAlpha(CharAt(url, 1))
            /\ \A k \in 1..(i - 1) : IsSchemeChar(CharAt(url, k))
        scheme == IF hasScheme THEN Lower(SubSeq(url, 1, i - 1)) ELSE ""
        rest == IF hasScheme THEN SubSeq(url, i + 1, Len(url)) ELSE url
        hasNetloc == StartsWith(rest, "//")
        delim == FindFirst(rest, 3, {"/", "?", "#"})
        netloc == IF hasNetloc THEN SubSeq(rest, 3, delim - 1) ELSE ""
        raised ==
            /\ hasNetloc
            /\ \/ Contains(netloc, "[") /\ ~Contains(netloc, "]")
               \/ Contains(netloc, "]") /\ ~Contains(netloc, "[")
    IN  [scheme |-> scheme, netloc |-> netloc, raised |-> raised]

\* validate_url looking for "shortcuts" without lowering the URL first
validate_url_case_sensitive(url, response) ==
    IF url = ""
    THEN [is_valid |-> FALSE, error_msg |-> "URL is empty", prompted |-> FALSE]
    ELSE IF StartsWith(url, "github_pat_") \/ StartsWith(url, "ghp_")
    THEN [is_valid |-> FALSE, error_msg |-> "This looks like a GitHub token",
          prompted |-> FALSE]
    ELSE LET parsed == urlparse(url) IN
         IF parsed.raised
         THEN [is_valid |-> FALSE, error_msg |-> "Invalid URL", prompted |-> FALSE]
         ELSE IF parsed.scheme = "" \/ parsed.netloc = ""
         THEN [is_valid |-> FALSE, error_msg |-> "Invalid URL format",
               prompted |-> FALSE]
         ELSE IF /\ ~Contains(url, "icloud.com/shortcuts")
                 /\ ~Contains(url, "shortcuts")
         THEN IF response # "y"
              THEN [is_valid |-> FALSE,
                    error_msg |-> "URL validation cancelled by user",
                    prompted |-> TRUE]
              ELSE [is_valid |-> TRUE, error_msg |-> "None", prompted |-> TRUE]
         ELSE [is_valid |-> TRUE, error_msg |-> "None", prompted |-> FALSE]

(* validate_url(url), with `response` what the user types if asked.       *)
(* The result carries, besides the returned pair, whether input() was      *)
(* called.                                                                 *)
validate_url(url, response) ==
    IF url = ""
    THEN [is_valid |-> FALSE, error_msg |-> "URL is empty", prompted |-> FALSE]
    ELSE IF StartsWith(url, "github_pat_") \/ StartsWith(url, "ghp_")
    THEN [is_valid |-> FALSE, error_msg |-> "This looks like a GitHub token",
          prompted |-> FALSE]
    ELSE LET parsed == urlparse(url) IN
         IF parsed.raised
         THEN [is_valid |-> FALSE, error_msg |-> "Invalid URL", prompted |-> FALSE]
         ELSE IF parsed.scheme = "" \/ parsed.netloc = ""
         THEN [is_valid |-> FALSE, error_msg |-> "Invalid URL format",
               prompted |-> FALSE]
         ELSE IF /\ ~Contains(Lower(url), "icloud.com/shortcuts")
                 /\ ~Contains(Lower(url), "shortcuts")
         THEN IF response # "y"
              THEN [is_valid |-> FALSE,
                    error_msg |-> "URL validation cancelled by user",
                    prompted |-> TRUE]
              ELSE [is_valid |-> TRUE, error_msg |-> "None", prompted |-> TRUE]
         ELSE [is_valid |-> TRUE, error_msg |-> "None", prompted |-> FALSE]

-----------------------------------------------------------------------------
(* The document patcher.  The links of this model hold no backslash and    *)
(* start with a letter, so the replacement template rf'\1{new_link}' is    *)
(* group 1 followed by the link's own characters.                          *)

\* replace_readme_link's default line_number
LinkLine == 57
\* replace_readme_qr_code's default line_number
QrLine == 59

LinkPrefix == "**Install MessageDict:** "
QrHead == "<img src=\""
QrTail == "\" alt=\"MessageDict QR Code\""

\* whether r'(\*\*Install MessageDict:\*\* )https://[^\s]+' matches at position i
LinkMatchAt(line, i) ==
    LET j == i + Len(LinkPrefix) + Len("https://")
    IN  /\ StartsWithAt(line, i, LinkPrefix \o "https://")
        /\ j <= Len(line)
        /\ CharAt(line, j) \notin Whitespace

(* re.sub(r'(\*\*Install MessageDict:\*\* )https://[^\s]+', rf'\1{new_link}', *)
(* line), from position i on: every leftmost non-overlapping match is      *)
(* replaced; [^\s]+ is greedy and nothing follows it.                      *)
RECURSIVE re_sub_link(_, _, _)
re_sub_link(line, i, new_link) ==
    LET starts == {k \in i..Len(line) : LinkMatchAt(line, k)}
    IN  IF starts = {} THEN SubSeq(line, i, Len(line))
        ELSE LET k == CHOOSE x \in starts : \A m \in starts : x <= m
                 e == FindFirst(line, k + Len(LinkPrefix) + Len("https://"), Whitespace)
             IN  SubSeq(line, i, k - 1) \o LinkPrefix \o new_link
                     \o re_sub_link(line, e, new_link)

(* whether r'(<img src=")[^"]+(" alt="MessageDict QR Code"[^>]*>)' matches *)
(* at position i: [^"]+ stops at the first quote, which must open group 2; *)
(* [^>]* stops at the first ">".                                           *)
QrMatchAt(line, i) ==
    LET j == i + Len(QrHead)
        q == FindFirst(line, j, {"\""})
        g == FindFirst(line, q + Len(QrTail), {">"})
    IN  /\ StartsWithAt(line, i, QrHead)
        /\ q > j
        /\ StartsWithAt(line, q, QrTail)
        /\ g <= Len(line)

(* re.sub(r'(<img src=")[^"]+(" alt="MessageDict QR Code"[^>]*>)',         *)
(* rf'\1{new_qr_url}\2', line), from position i on.                        *)
RECURSIVE re_sub_qr(_, _, _)
re_sub_qr(line, i, new_qr_url) ==
    LET starts == {k \in i..Len(line) : QrMatchAt(line, k)}
    IN  IF starts = {} THEN SubSeq(line, i, Len(line))
        ELSE LET k == CHOOSE x \in starts : \A m \in starts : x <= m
                 q == FindFirst(line, k + Len(QrHead), {"\""})
                 g == FindFirst(line, q + Len(QrTail), {">"})
             IN  SubSeq(line, i, k - 1) \o QrHead \o new_qr_url \o SubSeq(line, q, g)
                     \o re_sub_qr(line, g + 1, new_qr_url)

\* replace_readme_link(new_link, line_number) on the lines of README.md
replace_readme_link(lines, new_link, line_number) ==
    [i \in 1..Len(lines) |->
        IF i = line_number THEN re_sub_link(lines[i], 1, new_link) ELSE lines[i]]

\* replace_readme_qr_code(new_qr_url, line_number) on the lines of README.md
replace_readme_qr_code(lines, new_qr_url, line_number) ==
    [i \in 1..Len(lines) |->
        IF i = line_number THEN re_sub_qr(lines[i], 1, new_qr_url) ELSE lines[i]]

\* the raw-content URL upload_qr_to_github constructs
DownloadUrl(repo, branch, file_path) ==
    "https://raw.githubusercontent.com/" \o repo \o "/" \o branch \o "/" \o file_path

-----------------------------------------------------------------------------
(* The documents and names the runs start from. *)

\* a README.md of n lines with the given lines 57 and 59
Doc(n, l57, l59) ==
    [i \in 1..n |-> IF i = LinkLine THEN l57 ELSE IF i = QrLine THEN l59 ELSE "\n"]

Line57 == "**Install MessageDict:** https://old.example/x\n"
Line59 == "<img src=\"https://old.example/qr.png\" alt=\"MessageDict QR Code\" width=\"200\">\n"


\* the README.md main() starts from
README0 == Doc(QrLine + 1, Line57, Line59)

\* the owner/repository get_github_repo resolves
Repo == "acme/widget"
\* assets/<basename of the temporary file>
FilePath == "assets/message_dict_qr_abc.png"

\* branch names git can report
Branches == {"main", "master", "dev"}
\* the branches commit_and_push pushes to
PushBranches == {"main", "master"}

\* the links typed at main()'s prompt
MainLinks ==
    {"", "ghp_abc", "https://www.icloud.com/shortcuts/abc", "https://example.com/x"}

-----------------------------------------------------------------------------
(* main(): the state at the start of a run. *)

Init ==
    /\ pc = "pull_latest"
    /\ status = "running"
    /\ token \in {"", "ghp_token"}
    /\ printed = {}
    /\ cmds = <<>>
    /\ failed_cmd = ""
    /\ attempts = 0
    /\ shortcut_url = ""
    /\ is_valid = FALSE
    /\ error_msg = "None"
    /\ prompted = FALSE
    /\ readme = README0
    /\ qr_file = "absent"
    /\ cleanup_attempted = FALSE
    /\ qr_download_url = "None"
    /\ default_branch = ""
    /\ get_status = 0
    /\ sha = "None"
    /\ data = <<>>
    /\ obj_exists \in BOOLEAN
    /\ obj_sha = IF obj_exists THEN "H1" ELSE ""
    /\ remote_new \in [PushBranches -> 0..MaxBehind]
    /\ published_branch = ""
    /\ push_attempts = <<>>
    /\ current_branch = ""
    /\ release_status = 0

\* sys.exit(1)
SysExit1 ==
    /\ status' = "sys_exit1"
    /\ pc' = "exited"

\* an exception nothing catches: traceback, exit status 1
Uncaught ==
    /\ status' = "exception"
    /\ pc' = "raised in " \o pc

\* run_command printing the diagnostic and forgetting sys.exit(1)
run_command_no_exit(cmd, check, rc, next) ==
    /\ cmds' = Append(cmds, cmd)
    /\ pc' = next
    /\ UNCHANGED status
    /\ IF check /\ rc # 0
       THEN /\ printed' = printed \cup {"Error running command"}
            /\ failed_cmd' = cmd
       ELSE UNCHANGED <<printed, failed_cmd>>

(* run_command(cmd, check) when the command returns rc: the command has    *)
(* run; a non-zero rc under check prints the diagnostic and exits,         *)
(* otherwise control goes on to next.                                      *)
run_command(cmd, check, rc, next) ==
    /\ cmds' = Append(cmds, cmd)
    /\ IF check /\ rc # 0
       THEN /\ printed' = printed \cup {"Error running command"}
            /\ failed_cmd' = cmd
            /\ SysExit1
       ELSE /\ pc' = next
            /\ UNCHANGED <<printed, failed_cmd, status>>

-----------------------------------------------------------------------------
(* Step 1: pull_latest. *)

\* git fetch origin run with check left at its default
PullFetch_checked ==
    /\ pc = "pull_latest"
    /\ \E rc \in {0, 1} : run_command("git fetch origin", TRUE, rc, "pull_branch")
    /\ UNCHANGED <<token, attempts, shortcut_url, is_valid, error_msg, prompted,
                   readme, qr_file, cleanup_attempted, qr_download_url,
                   default_branch, get_status, sha, data, obj_exists, obj_sha,
                   remote_new, published_branch, push_attempts, current_branch,
                   release_status>>

\* git fetch origin, check=False
PullFetch ==
    /\ pc = "pull_latest"
    /\ \E rc \in {0, 1} : run_command("git fetch origin", FALSE, rc, "pull_branch")
    /\ UNCHANGED <<token, attempts, shortcut_url, is_valid, error_msg, prompted,
                   readme, qr_file, cleanup_attempted, qr_download_url,
                   default_branch, get_status, sha, data, obj_exists, obj_sha,
                   remote_new, published_branch, push_attempts, current_branch,
                   release_status>>

\* the current branch, else origin/HEAD, else "main"
PullBranch ==
    /\ pc = "pull_branch"
    /\ \E out1 \in Branches \cup {""}, out2 \in Branches \cup {""} :
          /\ out1 # "" => out2 = ""
          /\ current_branch' =
                IF out1 # "" THEN out1 ELSE IF out2 # "" THEN out2 ELSE "main"
          /\ cmds' = IF out1 # ""
                     THEN Append(cmds, "git branch --show-current")
                     ELSE cmds \o <<"git branch --show-current", "git symbolic-ref">>
    /\ pc' = "pull_behind"
    /\ UNCHANGED <<status, token, printed, failed_cmd, attempts, shortcut_url,
                   is_valid, error_msg, prompted, readme, qr_file,
                   cleanup_attempted, qr_download_url, default_branch, get_status, sha,
                   data, obj_exists, obj_sha, remote_new, published_branch,
                   push_attempts, release_status>>

\* what git rev-list HEAD..origin/<branch> | wc -l can count for the branch
BehindCounts(b) ==
    IF b \in PushBranches THEN 0..remote_new[b] ELSE 0..MaxBehind

\* the behind count, and the question asked when it is positive
PullBehind ==
    /\ pc = "pull_behind"
    /\ \E behind \in BehindCounts(current_branch), response \in {"y", "n"} :
          /\ cmds' = Append(cmds, "git rev-list")
          /\ IF behind > 0
             THEN IF response = "y"
                  THEN /\ pc' = "pull_run"
                       /\ printed' = printed \cup {"You are behind"}
                       /\ UNCHANGED current_branch
                  ELSE /\ pc' = "prompt_url"
                       /\ printed' = printed \cup {"You are behind", "Skipping pull"}
                       /\ current_branch' = ""
             ELSE /\ pc' = "prompt_url"
                  /\ printed' = printed \cup {"Already on the latest version"}
                  /\ current_branch' = ""
    /\ UNCHANGED <<status, token, failed_cmd, attempts, shortcut_url,
                   is_valid, error_msg, prompted, readme, qr_file,
                   cleanup_attempted, qr_download_url, default_branch, get_status, sha,
                   data, obj_exists, obj_sha, remote_new, published_branch,
                   push_attempts, release_status>>

\* git pull origin <branch>, check=True (the default)
PullRun ==
    /\ pc = "pull_run"
    /\ \E rc \in {0, 1} :
          /\ run_command("git pull origin", TRUE, rc, "prompt_url")
          /\ remote_new' =
                IF rc = 0 /\ current_branch \in PushBranches
                THEN [remote_new EXCEPT ![current_branch] = 0]
                ELSE remote_new
    /\ current_branch' = ""
    /\ UNCHANGED <<token, attempts, shortcut_url, is_valid, error_msg, prompted,
                   readme, qr_file, cleanup_attempted, qr_download_url,
                   default_branch, get_status, sha, data, obj_exists, obj_sha,
                   published_branch, push_attempts, release_status>>

-----------------------------------------------------------------------------
(* Steps 2 to 6: the link, the download, the link patch, the QR file and   *)
(* the repository.                                                         *)

linkVars == <<attempts, shortcut_url, is_valid, error_msg, prompted>>
uploadLocals == <<default_branch, get_status, sha, data>>
storeVars == <<obj_exists, obj_sha>>
gitVars == <<remote_new, published_branch, push_attempts, current_branch>>

\* one iteration of the while True loop: input(), the empty check, validate_url
PromptUrl ==
    /\ pc = "prompt_url"
    /\ attempts < MaxAttempts
    /\ attempts' = attempts + 1
    /\ \E url \in MainLinks, response \in {"y", "n"} :
          /\ shortcut_url' = url
          /\ IF url = ""
             THEN /\ printed' = printed \cup {"Error: No URL provided."}
                  /\ pc' = "prompt_url"
                  /\ UNCHANGED <<is_valid, error_msg, prompted>>
             ELSE LET r == validate_url(url, response) IN
                  /\ is_valid' = r.is_valid
                  /\ error_msg' = r.error_msg
                  /\ prompted' = r.prompted
                  /\ printed' = IF r.is_valid THEN printed
                                ELSE printed \cup {r.error_msg}
                  /\ pc' = IF r.is_valid THEN "download_file" ELSE "prompt_url"
    /\ UNCHANGED <<status, token, cmds, failed_cmd, readme, qr_file,
                   cleanup_attempted, qr_download_url, uploadLocals, storeVars,
                   gitVars, release_status>>

\* download_file: requests.get and raise_for_status, nothing caught
DownloadFile ==
    /\ pc = "download_file"
    /\ \E ok \in BOOLEAN :
          IF ok
          THEN /\ cmds' = Append(cmds, "GET shortcut")
               /\ pc' = "replace_readme_link"
               /\ UNCHANGED status
          ELSE /\ Uncaught
               /\ UNCHANGED cmds
    /\ UNCHANGED <<token, printed, failed_cmd, linkVars, readme, qr_file,
                   cleanup_attempted, qr_download_url, uploadLocals, storeVars,
                   gitVars, release_status>>

\* replace_readme_link(shortcut_url); open() raises when README.md is missing
ReplaceReadmeLink ==
    /\ pc = "replace_readme_link"
    /\ \E ok \in BOOLEAN :
          IF ok
          THEN /\ readme' = replace_readme_link(readme, shortcut_url, LinkLine)
               /\ pc' = "generate_qr_code"
               /\ UNCHANGED status
          ELSE /\ Uncaught
               /\ UNCHANGED readme
    /\ UNCHANGED <<token, printed, cmds, failed_cmd, linkVars, qr_file,
                   cleanup_attempted, qr_download_url, uploadLocals, storeVars,
                   gitVars, release_status>>

\* NamedTemporaryFile(delete=False) and generate_qr_code
GenerateQrCode ==
    /\ pc = "generate_qr_code"
    /\ qr_file' = "exists"
    /\ pc' = "get_github_repo"
    /\ UNCHANGED <<status, token, printed, cmds, failed_cmd, linkVars, readme,
                   cleanup_attempted, qr_download_url, uploadLocals, storeVars,
                   gitVars, release_status>>

\* get_github_repo: no remote, or a remote no pattern matches, is fatal
GetGithubRepo ==
    /\ pc = "get_github_repo"
    /\ cmds' = Append(cmds, "git remote get-url origin")
    /\ \E outcome \in {"ok", "no remote", "no match"} :
          IF outcome = "ok"
          THEN /\ pc' = "check_token"
               /\ UNCHANGED <<status, printed>>
          ELSE /\ printed' = printed \cup {"Error: " \o outcome}
               /\ SysExit1
    /\ UNCHANGED <<token, failed_cmd, linkVars, readme, qr_file,
                   cleanup_attempted, qr_download_url, uploadLocals, storeVars,
                   gitVars, release_status>>

-----------------------------------------------------------------------------
(* Step 7: the QR code upload. *)

\* main: if GITHUB_TOKEN: ... else: the warning
CheckToken ==
    /\ pc = "check_token"
    /\ IF token # ""
       THEN /\ pc' = "upload_detect"
            /\ UNCHANGED printed
       ELSE /\ pc' = "version_info"
            /\ printed' = printed \cup {"GITHUB_TOKEN not set. QR code not uploaded to GitHub."}
    /\ UNCHANGED <<status, token, cmds, failed_cmd, linkVars, readme, qr_file,
                   cleanup_attempted, qr_download_url, uploadLocals, storeVars,
                   gitVars, release_status>>

\* upload_qr_to_github: the default branch, "main" when git names none
UploadDetect ==
    /\ pc = "upload_detect"
    /\ \E out \in Branches \cup {""} :
          default_branch' = IF out = "" THEN "main" ELSE out
    /\ cmds' = Append(cmds, "git symbolic-ref")
    /\ pc' = "upload_get"
    /\ UNCHANGED <<status, token, printed, failed_cmd, linkVars, readme, qr_file,
                   cleanup_attempted, qr_download_url, get_status, sha, data,
                   storeVars, gitVars, release_status>>

\* the statuses the contents API can answer the hash lookup with
GetStatuses == IF obj_exists THEN {200, 403, 500} ELSE {404, 403, 500}

\* the body of the PUT request with "sha" set whatever the lookup found
PutData_always_sha(branch, s) ==
    [message |-> "Add QR code", content |-> "base64", branch |-> branch, sha |-> s]

\* the body of the PUT request: "sha" is a key only when sha is truthy
PutData(branch, s) ==
    LET base == [message |-> "Add QR code", content |-> "base64", branch |-> branch]
    IN  IF s # "None" /\ s # "" THEN base @@ [sha |-> s] ELSE base

(* requests.get(url): a transport error is not caught; sha is taken from a *)
(* 200 answer, and the PUT body is built.                                  *)
UploadGet ==
    /\ pc = "upload_get"
    /\ \/ /\ Uncaught
          /\ UNCHANGED <<cmds, get_status, sha, data>>
       \/ \E code \in GetStatuses :
             /\ cmds' = Append(cmds, "GET " \o FilePath)
             /\ get_status' = code
             /\ sha' = IF code = 200 THEN obj_sha ELSE "None"
             /\ data' = PutData(default_branch, sha')
             /\ pc' = "upload_put"
             /\ UNCHANGED status
    /\ UNCHANGED <<token, printed, failed_cmd, linkVars, readme, qr_file,
                   cleanup_attempted, qr_download_url, default_branch,
                   storeVars, gitVars, release_status>>

\* the statuses the contents API can answer the PUT with
PutStatuses(d) ==
    {403, 422}
      \cup (IF obj_exists /\ "sha" \in DOMAIN d /\ d["sha"] = obj_sha THEN {200} ELSE {})
      \cup (IF ~obj_exists /\ "sha" \notin DOMAIN d THEN {201} ELSE {})

\* requests.put(url, json=data): on 200/201 the URL is constructed, else None
UploadPut ==
    /\ pc = "upload_put"
    /\ \/ /\ Uncaught
          /\ UNCHANGED <<cmds, printed, qr_download_url, storeVars, remote_new,
                         published_branch>>
       \/ \E code \in PutStatuses(data) :
             /\ cmds' = Append(cmds, "PUT " \o FilePath)
             /\ pc' = "upload_return"
             /\ UNCHANGED status
             /\ IF code \in {200, 201}
                THEN /\ qr_download_url' = DownloadUrl(Repo, default_branch, FilePath)
                     /\ printed' = printed \cup {"QR code uploaded"}
                     /\ obj_exists' = TRUE
                     /\ obj_sha' = "H2"
                     /\ published_branch' = default_branch
                     /\ remote_new' =
                           IF default_branch \in PushBranches
                           THEN [remote_new EXCEPT ![default_branch] = @ + 1]
                           ELSE remote_new
                ELSE /\ qr_download_url' = "None"
                     /\ printed' = printed \cup
                           {IF code = 403 THEN "Failed to upload QR code (403 Forbidden)"
                            ELSE "Failed to upload QR code"}
                     /\ UNCHANGED <<storeVars, remote_new, published_branch>>
    /\ UNCHANGED <<token, failed_cmd, linkVars, readme, qr_file,
                   cleanup_attempted, default_branch, get_status, sha, data,
                   push_attempts, current_branch, release_status>>

\* main pulling the branch the upload committed to before it goes on
UploadReturn_pulls ==
    /\ pc = "upload_return"
    /\ IF qr_download_url # "None"
       THEN /\ readme' = replace_readme_qr_code(readme, qr_download_url, QrLine)
            /\ remote_new' =
                  IF published_branch \in PushBranches
                  THEN [remote_new EXCEPT ![published_branch] = 0]
                  ELSE remote_new
            /\ UNCHANGED printed
       ELSE /\ printed' = printed \cup {"QR code upload failed. Will continue"}
            /\ UNCHANGED <<readme, remote_new>>
    /\ default_branch' = ""
    /\ get_status' = 0
    /\ sha' = "None"
    /\ data' = <<>>
    /\ pc' = "version_info"
    /\ UNCHANGED <<status, token, cmds, failed_cmd, linkVars, qr_file,
                   cleanup_attempted, qr_download_url, storeVars,
                   published_branch, push_attempts, current_branch,
                   release_status>>

\* main: the image field is patched when a URL came back, else the warning
UploadReturn ==
    /\ pc = "upload_return"
    /\ IF qr_download_url # "None"
       THEN /\ readme' = replace_readme_qr_code(readme, qr_download_url, QrLine)
            /\ UNCHANGED printed
       ELSE /\ printed' = printed \cup {"QR code upload failed. Will continue"}
            /\ UNCHANGED readme
    /\ default_branch' = ""
    /\ get_status' = 0
    /\ sha' = "None"
    /\ data' = <<>>
    /\ pc' = "version_info"
    /\ UNCHANGED <<status, token, cmds, failed_cmd, linkVars, qr_file,
                   cleanup_attempted, qr_download_url, storeVars, gitVars,
                   release_status>>

-----------------------------------------------------------------------------
(* Steps 8 to 12: the version inputs, commit, push, tag, release, clean-up. *)

\* the three input() calls; an empty one is fatal
VersionInfo ==
    /\ pc = "version_info"
    /\ \E version_name \in {"", "v1"}, tag \in {"", "beta"}, changes \in {"", "fixes"} :
          IF version_name = "" \/ tag = "" \/ changes = ""
          THEN /\ printed' = printed \cup {"Error: Version name, tag, and changes are required."}
               /\ SysExit1
          ELSE /\ pc' = "git_add"
               /\ UNCHANGED <<status, printed>>
    /\ UNCHANGED <<token, cmds, failed_cmd, linkVars, readme, qr_file,
                   cleanup_attempted, qr_download_url, uploadLocals, storeVars,
                   gitVars, release_status>>

\* commit_and_push: git add .
GitAdd ==
    /\ pc = "git_add"
    /\ \E rc \in {0, 1} : run_command("git add .", TRUE, rc, "git_commit")
    /\ UNCHANGED <<token, linkVars, readme, qr_file, cleanup_attempted,
                   qr_download_url, uploadLocals, storeVars, gitVars,
                   release_status>>

\* commit_and_push: git commit -m
GitCommit ==
    /\ pc = "git_commit"
    /\ \E rc \in {0, 1} : run_command("git commit", TRUE, rc, "git_push")
    /\ UNCHANGED <<token, linkVars, readme, qr_file, cleanup_attempted,
                   qr_download_url, uploadLocals, storeVars, gitVars,
                   release_status>>

\* one push attempt: the branch, and whether the local branch lacks commits of origin's
Attempt(b) == [branch |-> b, behind |-> remote_new[b] > 0]

(* commit_and_push: git push origin main || git push origin master, one    *)
(* shell command: master is tried when main fails, and the command fails   *)
(* when both do.  origin refuses a push from a branch that is behind.      *)
GitPush ==
    /\ pc = "git_push"
    /\ \E outcome \in {"main", "master", "fail"} :
          /\ outcome \in PushBranches => remote_new[outcome] = 0
          /\ push_attempts' =
                IF outcome = "main"
                THEN Append(push_attempts, Attempt("main"))
                ELSE push_attempts \o <<Attempt("main"), Attempt("master")>>
          /\ run_command("git push origin main || git push origin master", TRUE,
                         IF outcome = "fail" THEN 1 ELSE 0, "git_tag")
    /\ UNCHANGED <<token, linkVars, readme, qr_file, cleanup_attempted,
                   qr_download_url, uploadLocals, storeVars, remote_new,
                   published_branch, current_branch, release_status>>

\* create_tag: git tag -a
GitTag ==
    /\ pc = "git_tag"
    /\ \E rc \in {0, 1} : run_command("git tag", TRUE, rc, "git_push_tag")
    /\ UNCHANGED <<token, linkVars, readme, qr_file, cleanup_attempted,
                   qr_download_url, uploadLocals, storeVars, gitVars,
                   release_status>>

\* create_tag: git push origin <tag>
GitPushTag ==
    /\ pc = "git_push_tag"
    /\ \E rc \in {0, 1} : run_command("git push origin tag", TRUE, rc, "check_release")
    /\ UNCHANGED <<token, linkVars, readme, qr_file, cleanup_attempted,
                   qr_download_url, uploadLocals, storeVars, gitVars,
                   release_status>>

\* main: if GITHUB_TOKEN: create_github_release(...); there is no else
CheckRelease ==
    /\ pc = "check_release"
    /\ pc' = IF token # "" THEN "create_release" ELSE "cleanup"
    /\ UNCHANGED <<status, token, printed, cmds, failed_cmd, linkVars, readme,
                   qr_file, cleanup_attempted, qr_download_url, uploadLocals,
                   storeVars, gitVars, release_status>>

\* create_github_release exiting when the release is not created
CreateRelease_fatal ==
    /\ pc = "create_release"
    /\ \/ /\ token = ""
          /\ printed' = printed \cup {"GITHUB_TOKEN not set. Skipping GitHub release creation."}
          /\ pc' = "cleanup"
          /\ UNCHANGED <<status, cmds, release_status>>
       \/ /\ token # ""
          /\ Uncaught
          /\ UNCHANGED <<cmds, printed, release_status>>
       \/ \E code \in {201, 422, 403} :
             /\ token # ""
             /\ cmds' = Append(cmds, "POST release")
             /\ release_status' = code
             /\ IF code = 201
                THEN /\ printed' = printed \cup {"Release created"}
                     /\ pc' = IF qr_file = "exists" THEN "release_asset" ELSE "cleanup"
                     /\ UNCHANGED status
                ELSE /\ printed' = printed \cup {"Failed to create release"}
                     /\ SysExit1
    /\ UNCHANGED <<token, failed_cmd, linkVars, readme, qr_file,
                   cleanup_attempted, qr_download_url, uploadLocals, storeVars,
                   gitVars>>

(* create_github_release: without a token the warning and return; else the *)
(* POST: 201 goes on to the asset, anything else is logged.                *)
CreateRelease ==
    /\ pc = "create_release"
    /\ \/ /\ token = ""
          /\ printed' = printed \cup {"GITHUB_TOKEN not set. Skipping GitHub release creation."}
          /\ pc' = "cleanup"
          /\ UNCHANGED <<status, cmds, release_status>>
       \/ /\ token # ""
          /\ Uncaught
          /\ UNCHANGED <<cmds, printed, release_status>>
       \/ \E code \in {201, 422, 403} :
             /\ token # ""
             /\ cmds' = Append(cmds, "POST release")
             /\ release_status' = code
             /\ UNCHANGED status
             /\ IF code = 201
                THEN /\ printed' = printed \cup {"Release created"}
                     /\ pc' = IF qr_file = "exists" THEN "release_asset" ELSE "cleanup"
                ELSE /\ printed' = printed \cup
                           ({"Failed to create release"} \cup
                            (IF code = 422 THEN {"Release might already exist. Continuing..."}
                             ELSE {}))
                     /\ pc' = "cleanup"
    /\ UNCHANGED <<token, failed_cmd, linkVars, readme, qr_file,
                   cleanup_attempted, qr_download_url, uploadLocals, storeVars,
                   gitVars>>

\* create_github_release: the asset POST to the release's upload URL
ReleaseAsset ==
    /\ pc = "release_asset"
    /\ \/ /\ Uncaught
          /\ UNCHANGED <<cmds, printed>>
       \/ \E code \in {201, 422} :
             /\ cmds' = Append(cmds, "POST asset")
             /\ printed' = printed \cup
                   {IF code = 201 THEN "Asset uploaded to release"
                    ELSE "Failed to upload asset"}
             /\ pc' = "cleanup"
             /\ UNCHANGED status
    /\ UNCHANGED <<token, failed_cmd, linkVars, readme, qr_file,
                   cleanup_attempted, qr_download_url, uploadLocals, storeVars,
                   gitVars, release_status>>

\* the clean-up block moved under the if GITHUB_TOKEN of the release
Cleanup_under_token ==
    /\ pc = "cleanup"
    /\ IF token # ""
       THEN /\ cleanup_attempted' = TRUE
            /\ \E removed \in BOOLEAN :
                  IF removed
                  THEN /\ qr_file' = "removed"
                       /\ printed' = printed \cup {"Cleaned up temporary QR code file"}
                  ELSE /\ qr_file' = qr_file
                       /\ printed' = printed \cup {"Warning: Could not delete temporary QR code file"}
       ELSE UNCHANGED <<cleanup_attempted, qr_file, printed>>
    /\ status' = "exit0"
    /\ pc' = "done"
    /\ UNCHANGED <<token, cmds, failed_cmd, linkVars, readme, qr_download_url,
                   uploadLocals, storeVars, gitVars, release_status>>

\* main: the try block around os.remove, then "Upload process completed!"
Cleanup ==
    /\ pc = "cleanup"
    /\ cleanup_attempted' = TRUE
    /\ \E removed \in BOOLEAN :
          IF removed
          THEN /\ qr_file' = "removed"
               /\ printed' = printed \cup {"Cleaned up temporary QR code file"}
          ELSE /\ qr_file' = qr_file
               /\ printed' = printed \cup {"Warning: Could not delete temporary QR code file"}
    /\ status' = "exit0"
    /\ pc' = "done"
    /\ UNCHANGED <<token, cmds, failed_cmd, linkVars, readme, qr_download_url,
                   uploadLocals, storeVars, gitVars, release_status>>

Next ==
    \/ PullFetch \/ PullBranch \/ PullBehind \/ PullRun
    \/ PromptUrl \/ DownloadFile \/ ReplaceReadmeLink \/ GenerateQrCode
    \/ GetGithubRepo \/ CheckToken \/ UploadDetect \/ UploadGet \/ UploadPut
    \/ UploadReturn \/ VersionInfo \/ GitAdd \/ GitCommit \/ GitPush \/ GitTag
    \/ GitPushTag \/ CheckRelease \/ CreateRelease \/ ReleaseAsset \/ Cleanup

Spec == Init /\ [][Next]_vars

-----------------------------------------------------------------------------
(* validate_url on its own: every candidate link, each answer to the      *)
(* confirmation question.                                                  *)

\* main()'s variables in a specification that runs no main()
MainIdle ==
    /\ status = "running"
    /\ token = ""
    /\ printed = {}
    /\ cmds = <<>>
    /\ failed_cmd = ""
    /\ attempts = 0
    /\ qr_file = "absent"
    /\ cleanup_attempted = FALSE
    /\ default_branch = ""
    /\ get_status = 0
    /\ sha = "None"
    /\ data = <<>>
    /\ obj_exists = FALSE
    /\ obj_sha = ""
    /\ remote_new = [b \in PushBranches |-> 0]
    /\ published_branch = ""
    /\ push_attempts = <<>>
    /\ current_branch = ""
    /\ release_status = 0

\* the pieces candidate links are concatenated from
Pieces ==
    {"ghp_", "github_pat_", "https://", "https:", "a.b", "/shortcuts", "/Shortcuts",
     "/x", " y", "["}

\* the concatenations of at most n pieces
RECURSIVE Concats(_)
Concats(n) ==
    IF n = 0 THEN {""}
    ELSE LET shorter == Concats(n - 1)
         IN  shorter \cup {s \o x : s \in shorter, x \in Pieces}

Links == Concats(MaxPieces)

InitValidate ==
    /\ pc = "validate"
    /\ shortcut_url \in Links
    /\ is_valid = FALSE
    /\ error_msg = "None"
    /\ prompted = FALSE
    /\ readme = <<>>
    /\ qr_download_url = "None"
    /\ MainIdle

\* is_valid, error_msg = validate_url(shortcut_url)
ValidateUrl ==
    /\ pc = "validate"
    /\ \E response \in {"y", "n"} :
          LET r == validate_url(shortcut_url, response) IN
          /\ is_valid' = r.is_valid
          /\ error_msg' = r.error_msg
          /\ prompted' = r.prompted
    /\ pc' = "validated"
    /\ UNCHANGED <<status, token, printed, cmds, failed_cmd, attempts,
                   shortcut_url, readme, qr_file, cleanup_attempted,
                   qr_download_url, uploadLocals, storeVars, gitVars,
                   release_status>>

NextValidate == ValidateUrl

SpecValidate == InitValidate /\ [][NextValidate]_vars

-----------------------------------------------------------------------------
(* The document patcher on its own: each patch applied once and then again *)
(* with the same replacement.                                              *)

\* the links validate_url accepts, under some answer
PatchLinks ==
    {l \in Links : \E response \in {"y", "n"} : validate_url(l, response).is_valid}

\* the URLs upload_qr_to_github can return
PatchQrUrls == {DownloadUrl(Repo, b, FilePath) : b \in Branches}

PatchDocs ==
    {Doc(n, l57, l59) :
        n \in {LinkLine - 1, QrLine + 1},
        l57 \in {Line57, "plain text\n",
                 LinkPrefix \o "https://a/1 and " \o LinkPrefix \o "https://a/2\n"},
        l59 \in {Line59, "<img src=\"x.png\">\n"}}

InitPatch ==
    /\ pc = "patch"
    /\ shortcut_url \in PatchLinks
    /\ is_valid = TRUE
    /\ error_msg = "None"
    /\ prompted = FALSE
    /\ readme \in PatchDocs
    /\ qr_download_url \in PatchQrUrls
    /\ MainIdle

\* replace_readme_link(shortcut_url), a first and a second time
PatchLink ==
    /\ pc \in {"patch", "link once"}
    /\ readme' = replace_readme_link(readme, shortcut_url, LinkLine)
    /\ pc' = IF pc = "patch" THEN "link once" ELSE "link twice"
    /\ UNCHANGED <<status, token, printed, cmds, failed_cmd, linkVars, qr_file,
                   cleanup_attempted, qr_download_url, uploadLocals, storeVars,
                   gitVars, release_status>>

\* replace_readme_qr_code(qr_download_url), a first and a second time
PatchQr ==
    /\ pc \in {"patch", "qr once"}
    /\ readme' = replace_readme_qr_code(readme, qr_download_url, QrLine)
    /\ pc' = IF pc = "patch" THEN "qr once" ELSE "qr twice"
    /\ UNCHANGED <<status, token, printed, cmds, failed_cmd, linkVars, qr_file,
                   cleanup_attempted, qr_download_url, uploadLocals, storeVars,
                   gitVars, release_status>>

NextPatch == PatchLink \/ PatchQr

SpecPatch == InitPatch /\ [][NextPatch]_vars

-----------------------------------------------------------------------------
(* Properties. *)

InCmds(c) == \E i \in 1..Len(cmds) : cmds[i] = c

\* the position of the first occurrence of c in cmds, 0 when there is none
Pos(c) ==
    IF InCmds(c) THEN CHOOSE i \in 1..Len(cmds) : cmds[i] = c /\ \A j \in 1..(i - 1) : cmds[j] # c
    ELSE 0

GetCmd == "GET " \o FilePath
PutCmd == "PUT " \o FilePath
PushCmd == "git push origin main || git push origin master"

\* main() has left step 7 behind
PastStep7 ==
    pc \in {"version_info", "git_add", "git_commit", "git_push", "git_tag",
            "git_push_tag", "check_release", "create_release", "release_asset",
            "cleanup", "done"}

\* main() has left step 11 behind
PastStep11 == pc \in {"cleanup", "done"}

(* C1: in a run without a credential the QR upload and the release         *)
(* creation are both skipped, each with a warning, line 59 of the document *)
(* is never rewritten, and once the tag push has succeeded the run ends    *)
(* with exit status 0.                                                     *)
C1_NoCredentialRun ==
    token = "" =>
        /\ ~InCmds(GetCmd) /\ ~InCmds(PutCmd) /\ ~InCmds("POST release")
        /\ PastStep7 =>
              "GITHUB_TOKEN not set. QR code not uploaded to GitHub." \in printed
        /\ PastStep11 =>
              "GITHUB_TOKEN not set. Skipping GitHub release creation." \in printed
        /\ readme[QrLine] = README0[QrLine]
        /\ InCmds("git push origin tag") /\ failed_cmd = "" =>
              /\ status \in {"running", "exit0"}
              /\ pc = "done" => status = "exit0"

\* C1 without the warning of the release skip: what the code does keep
C1_ExceptReleaseWarning ==
    token = "" =>
        /\ ~InCmds(GetCmd) /\ ~InCmds(PutCmd) /\ ~InCmds("POST release")
        /\ PastStep7 =>
              "GITHUB_TOKEN not set. QR code not uploaded to GitHub." \in printed
        /\ readme[QrLine] = README0[QrLine]
        /\ InCmds("git push origin tag") /\ failed_cmd = "" =>
              /\ status \in {"running", "exit0"}
              /\ pc = "done" => status = "exit0"
              /\ status = "running" => ENABLED Next

\* main() is inside pull_latest
InStep1 == pc \in {"pull_latest", "pull_branch", "pull_behind", "pull_run"}

(* C2: the sync check is tolerant: whatever happens in pull_latest, the    *)
(* run reaches the link prompt of step 2 and never ends inside step 1.     *)
C2_SyncCheckTolerant ==
    /\ status # "running" => attempts > 0
    /\ InStep1 => ENABLED Next

(* C2 amended: the run leaves step 1 for the link prompt after a failed    *)
(* fetch, when not behind, when the pull is declined and when the pull     *)
(* succeeds; a confirmed pull that returns non-zero is the one way the run *)
(* ends inside step 1, with exit status 1 and the diagnostic.              *)
C2_SyncCheckAmended ==
    /\ InStep1 => status = "running" /\ ENABLED Next
    /\ status # "running" /\ attempts = 0 =>
          /\ status = "sys_exit1"
          /\ failed_cmd = "git pull origin"
          /\ cmds[Len(cmds)] = "git pull origin"
          /\ "Error running command" \in printed
    /\ pc = "prompt_url" => failed_cmd = ""

C2_Witness ==
    /\ pc = "prompt_url"
    /\ attempts = 0
    /\ InCmds("git pull origin")

(* C3: every run that created the temporary QR file attempts to delete it  *)
(* before the process ends, on every path.                                 *)
C3_CleanupOnEveryPath ==
    status # "running" /\ qr_file # "absent" => cleanup_attempted

(* C3 amended: a run that created the file and ends normally (exit status  *)
(* 0) has attempted the deletion; a run ended by sys.exit(1) or by an      *)
(* uncaught exception has not, and leaves the file behind.                 *)
C3_CleanupAmended ==
    /\ status = "exit0" => cleanup_attempted /\ qr_file # "absent"
    /\ status \in {"sys_exit1", "exception"} =>
          ~cleanup_attempted /\ qr_file # "removed"
    /\ qr_file = "removed" => cleanup_attempted

C3_Witness ==
    /\ status = "exit0"
    /\ cleanup_attempted
    /\ qr_file = "removed"

\* the commands of steps 9 to 11, in the order of the code
GatedChain ==
    <<"git add .", "git commit", PushCmd, "git tag", "git push origin tag",
      "POST release">>

(* C4: a non-zero exit of a required command ends the run at once with     *)
(* exit status 1 and the diagnostic, nothing is performed after it, and    *)
(* each command of steps 9 to 11 runs only after the ones before it have   *)
(* run and succeeded: the tag after commit and push, the release request   *)
(* after the tag and its push.                                             *)
C4_GatedOrder ==
    /\ failed_cmd # "" =>
          /\ status = "sys_exit1"
          /\ cmds[Len(cmds)] = failed_cmd
          /\ "Error running command" \in printed
    /\ \A k \in 2..Len(GatedChain) :
          InCmds(GatedChain[k]) =>
              /\ InCmds(GatedChain[k - 1])
              /\ Pos(GatedChain[k - 1]) < Pos(GatedChain[k])
              /\ failed_cmd # GatedChain[k - 1]

C4_Witness ==
    /\ InCmds("POST release")
    /\ InCmds("git tag")
    /\ failed_cmd = ""

(* C5: upload_qr_to_github never raises: whatever the lookup and the PUT   *)
(* do, main() goes on to step 8, and line 59 is rewritten only when a URL  *)
(* was returned.                                                           *)
C5_UploadNeverRaises ==
    /\ pc \notin {"raised in upload_detect", "raised in upload_get",
                  "raised in upload_put"}
    /\ readme[QrLine] # README0[QrLine] => qr_download_url # "None"

(* C6: the PUT is preceded by the GET for the same path, and its body has  *)
(* "sha" exactly when a prior object exists, with that object's hash.      *)
C6_ShaIffPriorObject ==
    /\ InCmds(PutCmd) => InCmds(GetCmd) /\ Pos(GetCmd) < Pos(PutCmd)
    /\ pc = "upload_put" =>
          /\ InCmds(GetCmd)
          /\ "sha" \in DOMAIN data <=> obj_exists
          /\ obj_exists => "sha" \in DOMAIN data /\ data["sha"] = obj_sha

(* C6 amended: the PUT is preceded by the GET for the same path, and its   *)
(* body has "sha" exactly when the lookup was answered 200, then with the  *)
(* hash of the existing object; without a prior object, and with a prior   *)
(* object whose lookup was answered otherwise, the body has no "sha".      *)
C6_ShaIffLookupFound ==
    /\ InCmds(PutCmd) => InCmds(GetCmd) /\ Pos(GetCmd) < Pos(PutCmd)
    /\ pc = "upload_put" =>
          /\ InCmds(GetCmd)
          /\ "sha" \in DOMAIN data <=> get_status = 200
          /\ "sha" \in DOMAIN data => obj_exists /\ data["sha"] = obj_sha
          /\ ~obj_exists => "sha" \notin DOMAIN data

C6_Witness ==
    /\ pc = "upload_return"
    /\ InCmds(PutCmd)
    /\ "sha" \in DOMAIN data
    /\ data["sha"] = "H1"

\* non-empty scheme and host
ValidAbsolute(url) ==
    LET parsed == urlparse(url)
    IN  ~parsed.raised /\ parsed.scheme # "" /\ parsed.netloc # ""

TokenLike(url) == StartsWith(url, "ghp_") \/ StartsWith(url, "github_pat_")

(* C7: every valid absolute URL without a token prefix is accepted with    *)
(* (True, None), and no confirmation is asked.                             *)
C7_AcceptsWithoutPrompt ==
    pc = "validated" /\ ValidAbsolute(shortcut_url) /\ ~TokenLike(shortcut_url) =>
        is_valid /\ error_msg = "None" /\ ~prompted

(* C7 amended: every valid absolute URL without a token prefix that holds  *)
(* "shortcuts" in any letter case is accepted with (True, None) and no     *)
(* confirmation is asked; one that does not hold it is asked about, and is *)
(* then accepted or rejected as cancelled by the user.                     *)
C7_AcceptsShortcutsLinks ==
    pc = "validated" /\ ValidAbsolute(shortcut_url) /\ ~TokenLike(shortcut_url) =>
        IF Contains(Lower(shortcut_url), "shortcuts")
        THEN is_valid /\ error_msg = "None" /\ ~prompted
        ELSE /\ prompted
             /\ is_valid => error_msg = "None"
             /\ ~is_valid => error_msg = "URL validation cancelled by user"

C7_Witness ==
    /\ pc = "validated"
    /\ ValidAbsolute(shortcut_url)
    /\ Contains(shortcut_url, "Shortcuts")
    /\ is_valid /\ ~prompted

(* C8: the document patcher is idempotent: the same patch applied a second *)
(* time leaves the document as the first application left it.              *)
C8_PatchIdempotent ==
    [][(pc = "link once" \/ pc = "qr once") => readme' = readme]_vars

(* C9: a release-creation request answered with 422 or another status that *)
(* is not 201 is logged, no asset is attached, and the run goes on to the  *)
(* clean-up and ends with exit status 0.                                   *)
C9_ReleaseFailureNonFatal ==
    release_status \notin {0, 201} =>
        /\ token # ""
        /\ "Failed to create release" \in printed
        /\ release_status = 422 => "Release might already exist. Continuing..." \in printed
        /\ ~InCmds("POST asset")
        /\ pc \in {"cleanup", "done"}
        /\ pc = "cleanup" => status = "running" /\ ENABLED Cleanup
        /\ pc = "done" => status = "exit0" /\ cleanup_attempted

C9_Witness ==
    /\ release_status = 422
    /\ pc = "done"
    /\ status = "exit0"
    /\ cleanup_attempted

(* C10: nothing between the QR upload and the push brings the upload's     *)
(* commit into the local branch: every push attempted to the branch the    *)
(* upload committed to is attempted while the local branch is behind.      *)
C10_PushWhileBehind ==
    \A i \in 1..Len(push_attempts) :
        push_attempts[i].branch = published_branch => push_attempts[i].behind

C10_Witness ==
    /\ published_branch = "main"
    /\ \E i \in 1..Len(push_attempts) :
          push_attempts[i].branch = published_branch /\ push_attempts[i].behind

====
